---- MODULE Spec2Model ----
(***************************************************************************)
(* A model of bot.py: the Telegram bot that classifies an inbound text,    *)
(* and for a YouTube link runs download_video (announce, clean, resolve,   *)
(* duration gate, materialize, locate, transform, size gate, deliver,      *)
(* finalize, except, finally) against a shared downloads directory.        *)
(*                                                                         *)
(* Strings that the code inspects character by character (URLs, titles,    *)
(* file names) are sequences of one-character strings.                     *)
(***************************************************************************)
EXTENDS Integers, Sequences, FiniteSets, TLC

VARIABLES
    text,             \* classifier input (argument of is_valid_youtube_url)
    verdict,          \* "unset", or the value is_valid_youtube_url returned
    mainpc,           \* main(): "polling" inside bot.polling, "except" in the handler
    msgCount,         \* number of inbound messages dispatched so far
    pc,               \* pc[w]: position of worker w inside its handler
    reqId,            \* reqId[w]: the message (request) worker w is serving
    status_message,   \* status_message[w]: local of download_video (FALSE = None)
    chatStatus,       \* chatStatus[w]: text of the request's status message in the chat
    info,             \* info[w]: metadata returned by ydl.extract_info, or NoInfo
    downloaded_file,  \* downloaded_file[w]: local of download_video (NoFile = None)
    processed_file,   \* processed_file[w]: local of download_video (NoFile = None)
    file_size,        \* file_size[w]: value read by os.path.getsize, -1 before
    calls,            \* calls[w]: how often each collaborator was invoked
    passed,           \* passed[w]: the stages that completed successfully, in order
    err,              \* err[w]: the exception raised in the try block ("none" if none)
    outcome,          \* outcome[w]: "none" | "Delivered" | "Rejected" | "Failed"
    report,           \* report[w]: [caught, logged, reported, escaped]
    sent,             \* sent[w]: the video message sent to the chat, or NoVideo
    dir,              \* the files in DOWNLOAD_DIR
    clock,            \* source of st_mtime values
    faults            \* whether the collaborators may fail on their own

vars == << text, verdict, mainpc, msgCount, pc, reqId, status_message, chatStatus,
           info, downloaded_file, processed_file, file_size, calls, passed, err,
           outcome, report, sent, dir, clock, faults >>

urlVars == << text, verdict, faults >>
botVars == << mainpc, msgCount, pc, reqId, status_message, chatStatus, info,
              downloaded_file, processed_file, file_size, calls, passed, err,
              outcome, report, sent, dir, clock >>

(***************************************************************************)
(* Bounds of the model.                                                    *)
(***************************************************************************)
MaxTokens == 4        \* a classifier input is at most this many tokens long
MaxMessages == 2      \* inbound messages dispatched in one behaviour

(***************************************************************************)
(* Characters and string helpers.                                          *)
(***************************************************************************)
LowerSeq == << "a","b","c","d","e","f","g","h","i","j","k","l","m",
               "n","o","p","q","r","s","t","u","v","w","x","y","z" >>
UpperSeq == << "A","B","C","D","E","F","G","H","I","J","K","L","M",
               "N","O","P","Q","R","S","T","U","V","W","X","Y","Z" >>
Digits == { "0","1","2","3","4","5","6","7","8","9" }
Range(s) == { s[i] : i \in 1..Len(s) }
Letters == Range(LowerSeq) \cup Range(UpperSeq)

Min(S) == CHOOSE x \in S : \A y \in S : x <= y

\* sub in s
Contains(s, sub) ==
    \E i \in 1..(Len(s) - Len(sub) + 1) : SubSeq(s, i, i + Len(sub) - 1) = sub

\* s.find(c, start) over a set of characters: least index >= start holding one
\* of them, Len(s) + 1 when there is none
FindAny(s, chars, start) ==
    LET idx == { i \in start..Len(s) : s[i] \in chars }
    IN  IF idx = {} THEN Len(s) + 1 ELSE Min(idx)

RECURSIVE Flatten(_)
\* "".join(parts)
Flatten(parts) ==
    IF parts = << >> THEN << >> ELSE Head(parts) \o Flatten(Tail(parts))

(***************************************************************************)
(* urllib.parse.urlparse(url).netloc, as is_valid_youtube_url uses it.     *)
(***************************************************************************)
SchemeChars == Letters \cup Digits \cup { "+", "-", "." }

\* the text left after urlsplit has removed a leading "scheme:"
AfterScheme(url) ==
    LET i == FindAny(url, { ":" }, 1)
    IN  IF /\ i <= Len(url)
           /\ i > 1
           /\ url[1] \in Letters
           /\ \A k \in 1..(i - 1) : url[k] \in SchemeChars
        THEN SubSeq(url, i + 1, Len(url))
        ELSE url

\* the netloc urlsplit cuts out: from "//" to the first of "/", "?", "#"
Netloc(url) ==
    LET rest == AfterScheme(url)
    IN  IF Len(rest) >= 2 /\ SubSeq(rest, 1, 2) = << "/", "/" >>
        THEN SubSeq(rest, 3, FindAny(rest, { "/", "?", "#" }, 3) - 1)
        ELSE << >>

\* urlsplit raises ValueError("Invalid IPv6 URL") on unbalanced brackets
ParseRaises(url) ==
    LET n == Netloc(url)
    IN  \/ ("[" \in Range(n) /\ "]" \notin Range(n))
        \/ ("]" \in Range(n) /\ "[" \notin Range(n))

YouTubeCom == << "y","o","u","t","u","b","e",".","c","o","m" >>
YoutuBe == << "y","o","u","t","u",".","b","e" >>

\* the list bot.py searches the netloc for
DomainList ==
    { YouTubeCom, YoutuBe, << "m", "." >> \o YouTubeCom,
      << "w", "w", "w", "." >> \o YouTubeCom }

\* is_valid_youtube_url(url)
is_valid_youtube_url(url) ==
    IF ParseRaises(url)
    THEN FALSE
    ELSE \E domain \in DomainList : Contains(Netloc(url), domain)

(***************************************************************************)
(* The classifier on its own: every text of at most MaxTokens tokens.      *)
(***************************************************************************)
Tokens ==
    { << "h","t","t","p","s",":","/","/" >>,
      YouTubeCom,
      YoutuBe,
      << "w","w","w","." >>,
      << "n","o","t" >>,
      << "e","v","i","l",".","e","x","a","m","p","l","e" >>,
      << ".","e","v","i","l",".","e","x","a","m","p","l","e" >>,
      << "/" >>,
      << "?","r","=" >>,
      << "W","W","W",".","Y","O","U","T","U","B","E",".","C","O","M" >>,
      << "u","s","e","r","@" >>,
      << ":","4","4","3" >> }

TokenSeqs == UNION { [ 1..n -> Tokens ] : n \in 0..MaxTokens }
Texts == { Flatten(ts) : ts \in TokenSeqs }

\* the texts the receive loop is fed with
StartCommand == << "/","s","t","a","r","t" >>
WatchUrl == << "h","t","t","p","s",":","/","/" >> \o YouTubeCom \o << "/","w" >>
ShortUrl == << "h","t","t","p","s",":","/","/" >> \o YoutuBe \o << "/","x" >>
Hello == << "h","e","l","l","o" >>
SampleTexts == { StartCommand, WatchUrl, ShortUrl, Hello }

(***************************************************************************)
(* Values of the download workflow.                                        *)
(***************************************************************************)
NumWorkers == 2                  \* telebot.TeleBot's default worker pool size
Workers == 1..NumWorkers

MaxDuration == 600               \* seconds
MaxFileSize == 50 * 1024 * 1024  \* bytes

Titles == { << "a","b" >>, << "a","!" >>, << "a" >> }
Exts == { << ".","m","p","4" >>, << ".","w","e","b","m" >> }
Mp4 == << ".","m","p","4" >>
RawSuffix == << "_","r","a","w" >> \o Mp4
PartSuffix == << ".","p","a","r","t" >>

\* info['duration']: the key may be missing, may hold None, or holds seconds
Durations ==
    { [key |-> "absent", secs |-> 0], [key |-> "none", secs |-> 0] }
    \cup { [key |-> "int", secs |-> s] : s \in { 120, MaxDuration, MaxDuration + 1 } }

Infos == [ title : Titles, duration : Durations ]
NoInfo == [ title |-> << >>, duration |-> [key |-> "absent", secs |-> 0] ]

Sizes == { MaxFileSize - 1, MaxFileSize, MaxFileSize + 1 }

NoFile == << >>
NoVideo == [ origin |-> 0, caption |-> << >>, size |-> 0 ]
NoCalls == [ resolve |-> 0, download |-> 0, transform |-> 0, send |-> 0 ]
NoReport == [ caught |-> FALSE, logged |-> FALSE, reported |-> FALSE, escaped |-> FALSE ]

\* str.isalnum() on one character
IsAlnum(c) == c \in Letters \cup Digits

RECURSIVE RStrip(_)
\* str.rstrip()
RStrip(s) ==
    IF s # << >> /\ s[Len(s)] = " " THEN RStrip(SubSeq(s, 1, Len(s) - 1)) ELSE s

\* get_safe_filename(title)
get_safe_filename(title) ==
    RStrip(SelectSeq(title, LAMBDA x : IsAlnum(x) \/ x \in { " ", "-", "_" }))

\* info.get('duration', 0)
DurationOf(i) == IF i.duration.key = "absent" THEN 0 ELSE i.duration.secs

\* a gate that compares the duration with the limit taken as minutes
TooLongMinutes(i) == DurationOf(i) > MaxDuration * 60

\* info.get('duration', 0) > 600
TooLong(i) == DurationOf(i) > MaxDuration

\* a gate that also rejects a file of exactly the limit
TooLargeInclusive(size) == size >= MaxFileSize

\* file_size > 50 * 1024 * 1024
TooLarge(size) == size > MaxFileSize

(***************************************************************************)
(* The downloads directory: a set of file records.  owner is the request   *)
(* that wrote the file, origin the request whose video it holds.           *)
(***************************************************************************)
File(name, mtime, owner, origin, kind, size) ==
    [ name |-> name, mtime |-> mtime, owner |-> owner, origin |-> origin,
      kind |-> kind, size |-> size ]

\* path.exists()
Exists(d, name) == \E f \in d : f.name = name

\* the file a path names
FileAt(d, name) == CHOOSE f \in d : f.name = name

\* creating or overwriting a file
WriteFile(d, f) == { g \in d : g.name # f.name } \cup { f }

\* path.unlink() for every path of names that exists
Unlink(d, names) == { f \in d : f.name \notin names }

\* max(potential_files, key=lambda x: x.stat().st_mtime)
Newest(d) == CHOOSE f \in d : \A g \in d : g.mtime <= f.mtime

(***************************************************************************)
(* Handler selection, in registration order: commands, YouTube links, rest.*)
(***************************************************************************)
IsCommand(t) ==
    /\ t # << >>
    /\ t[1] = "/"
    /\ SubSeq(t, 2, FindAny(t, { " ", "@" }, 2) - 1)
           \in { << "s","t","a","r","t" >>, << "h","e","l","p" >> }

Handler(t) ==
    IF IsCommand(t) THEN "welcome"
    ELSE IF t # << >> /\ is_valid_youtube_url(t) THEN "announce"
    ELSE "invalid"

(***************************************************************************)
(* Building blocks of the actions.                                         *)
(***************************************************************************)
Goto(w, label) == pc' = [pc EXCEPT ![w] = label]

\* the statements of the try block, in the order they are written
StageOrder ==
    << "announce", "clean", "resolve", "duration", "materialize", "locate",
       "transform", "size", "deliver", "finalize", "finally" >>

\* a try block that uploads right after the transform, before the size check
NextStageSkipsSize(stage) ==
    IF stage = "transform" THEN "deliver"
    ELSE StageOrder[(CHOOSE i \in 1..Len(StageOrder) : StageOrder[i] = stage) + 1]

\* the stage control falls through to when a stage raised nothing
NextStage(stage) ==
    StageOrder[(CHOOSE i \in 1..Len(StageOrder) : StageOrder[i] = stage) + 1]

\* an exception raised inside the try block of download_video
Throw(w, e) ==
    /\ pc' = [pc EXCEPT ![w] = "except"]
    /\ err' = [err EXCEPT ![w] = e]

\* an exception raised by a collaborator (Telegram, yt-dlp, ffmpeg) failing
Fault(w, e) ==
    /\ faults
    /\ Throw(w, e)

\* bot.edit_message_text(t, chat, status_message.message_id) succeeding
Edit(w, t) == chatStatus' = [chatStatus EXCEPT ![w] = t]

Pass(w, stage) == passed' = [passed EXCEPT ![w] = Append(@, stage)]

Call(w, f) == calls' = [calls EXCEPT ![w][f] = @ + 1]

Active(w) == pc[w] \notin { "idle", "done" }

(***************************************************************************)
(* Initial state.                                                          *)
(***************************************************************************)
BotInit ==
    /\ mainpc = "polling"
    /\ msgCount = 0
    /\ pc = [w \in Workers |-> "idle"]
    /\ reqId = [w \in Workers |-> 0]
    /\ status_message = [w \in Workers |-> FALSE]
    /\ chatStatus = [w \in Workers |-> "none"]
    /\ info = [w \in Workers |-> NoInfo]
    /\ downloaded_file = [w \in Workers |-> NoFile]
    /\ processed_file = [w \in Workers |-> NoFile]
    /\ file_size = [w \in Workers |-> -1]
    /\ calls = [w \in Workers |-> NoCalls]
    /\ passed = [w \in Workers |-> << >>]
    /\ err = [w \in Workers |-> "none"]
    /\ outcome = [w \in Workers |-> "none"]
    /\ report = [w \in Workers |-> NoReport]
    /\ sent = [w \in Workers |-> NoVideo]
    /\ dir = {}
    /\ clock = 0

Init ==
    /\ text = << >>
    /\ verdict = "unset"
    /\ faults = TRUE
    /\ BotInit

(***************************************************************************)
(* main(): the receive loop.                                               *)
(***************************************************************************)
\* bot.polling hands an inbound message to the first matching handler
Receive(w, inbound) ==
    /\ mainpc = "polling"
    /\ msgCount < MaxMessages
    /\ ~Active(w)
    /\ \E t \in inbound : Goto(w, Handler(t))
    /\ msgCount' = msgCount + 1
    /\ reqId' = [reqId EXCEPT ![w] = msgCount + 1]
    /\ status_message' = [status_message EXCEPT ![w] = FALSE]
    /\ chatStatus' = [chatStatus EXCEPT ![w] = "none"]
    /\ info' = [info EXCEPT ![w] = NoInfo]
    /\ downloaded_file' = [downloaded_file EXCEPT ![w] = NoFile]
    /\ processed_file' = [processed_file EXCEPT ![w] = NoFile]
    /\ file_size' = [file_size EXCEPT ![w] = -1]
    /\ calls' = [calls EXCEPT ![w] = NoCalls]
    /\ passed' = [passed EXCEPT ![w] = << >>]
    /\ err' = [err EXCEPT ![w] = "none"]
    /\ outcome' = [outcome EXCEPT ![w] = "none"]
    /\ report' = [report EXCEPT ![w] = NoReport]
    /\ sent' = [sent EXCEPT ![w] = NoVideo]
    /\ UNCHANGED << mainpc, dir, clock, urlVars >>

\* single-worker dispatch: a message is accepted once the previous handler returned
ReceiveNext ==
    /\ \A v \in Workers : ~Active(v)
    /\ Receive(1, SampleTexts)

\* send_welcome / handle_invalid_message: one bot.reply_to, which may raise
Reply(w) ==
    /\ pc[w] \in { "welcome", "invalid" }
    /\ \/ Goto(w, "done")
       \/ faults /\ Goto(w, "raised")
    /\ UNCHANGED << mainpc, msgCount, reqId, status_message, chatStatus, info,
                    downloaded_file, processed_file, file_size, calls, passed, err,
                    outcome, report, sent, dir, clock, urlVars >>

\* an exception that left a handler: telebot logs it and keeps polling, or
\* bot.polling raises it into main()
HandlerError(w) ==
    /\ pc[w] = "raised"
    /\ Goto(w, "done")
    /\ \/ mainpc' = mainpc
       \/ mainpc' = "except"
    /\ UNCHANGED << msgCount, reqId, status_message, chatStatus, info,
                    downloaded_file, processed_file, file_size, calls, passed, err,
                    outcome, report, sent, dir, clock, urlVars >>

\* bot.polling raises on a transport error
PollingError ==
    /\ mainpc = "polling"
    /\ mainpc' = "except"
    /\ UNCHANGED << msgCount, pc, reqId, status_message, chatStatus, info,
                    downloaded_file, processed_file, file_size, calls, passed, err,
                    outcome, report, sent, dir, clock, urlVars >>

\* a receive loop without the try/except: the exception ends main()
MainExits ==
    /\ mainpc = "except"
    /\ mainpc' = "exited"
    /\ UNCHANGED << msgCount, pc, reqId, status_message, chatStatus, info,
                    downloaded_file, processed_file, file_size, calls, passed, err,
                    outcome, report, sent, dir, clock, urlVars >>

\* except Exception: logger.error(...); continue
MainContinue ==
    /\ mainpc = "except"
    /\ mainpc' = "polling"
    /\ UNCHANGED << msgCount, pc, reqId, status_message, chatStatus, info,
                    downloaded_file, processed_file, file_size, calls, passed, err,
                    outcome, report, sent, dir, clock, urlVars >>

(***************************************************************************)
(* download_video(url, message), one action per stage.  Every call of the  *)
(* Telegram client, of yt-dlp and of the file system that can raise has    *)
(* a raising branch.                                                       *)
(***************************************************************************)
\* status_message = bot.reply_to(message, "Starting download...")
Announce(w) ==
    /\ pc[w] = "announce"
    /\ \/ /\ status_message' = [status_message EXCEPT ![w] = TRUE]
          /\ Edit(w, "starting")
          /\ Pass(w, "announce")
          /\ Goto(w, NextStage("announce"))
          /\ UNCHANGED err
       \/ /\ Fault(w, "reply_to")
          /\ UNCHANGED << status_message, chatStatus, passed >>
    /\ UNCHANGED << mainpc, msgCount, reqId, info, downloaded_file, processed_file,
                    file_size, calls, outcome, report, sent, dir, clock, urlVars >>

\* for file in DOWNLOAD_DIR.glob("*"): file.unlink()
CleanExisting(w) ==
    /\ pc[w] = "clean"
    /\ dir' = {}
    /\ Pass(w, "clean")
    /\ Goto(w, NextStage("clean"))
    /\ UNCHANGED << mainpc, msgCount, reqId, status_message, chatStatus, info,
                    downloaded_file, processed_file, file_size, calls, err,
                    outcome, report, sent, clock, urlVars >>

\* edit "Fetching video information..."; info = ydl.extract_info(url, download=False);
\* if not info: raise ValueError
Resolve(w) ==
    /\ pc[w] = "resolve"
    /\ \/ /\ Fault(w, "edit_message_text")
          /\ UNCHANGED << chatStatus, calls, info, passed >>
       \/ /\ Edit(w, "fetching")
          /\ Call(w, "resolve")
          /\ \/ /\ Fault(w, "extract_info")
                /\ UNCHANGED << info, passed >>
             \/ /\ Fault(w, "no_info")
                /\ UNCHANGED << info, passed >>
             \/ /\ \E i \in Infos : info' = [info EXCEPT ![w] = i]
                /\ Pass(w, "resolve")
                /\ Goto(w, NextStage("resolve"))
                /\ UNCHANGED err
    /\ UNCHANGED << mainpc, msgCount, reqId, status_message, downloaded_file,
                    processed_file, file_size, outcome, report, sent, dir, clock,
                    urlVars >>

\* if info.get('duration', 0) > 600: raise ValueError; then the two file names
DurationGate(w) ==
    /\ pc[w] = "duration"
    /\ IF info[w].duration.key = "none"
       THEN /\ Throw(w, "duration_type")
            /\ UNCHANGED << downloaded_file, processed_file, passed >>
       ELSE IF TooLong(info[w])
       THEN /\ Throw(w, "too_long")
            /\ UNCHANGED << downloaded_file, processed_file, passed >>
       ELSE /\ downloaded_file' = [downloaded_file EXCEPT ![w] =
                                      get_safe_filename(info[w].title) \o RawSuffix]
            /\ processed_file' = [processed_file EXCEPT ![w] =
                                      get_safe_filename(info[w].title) \o Mp4]
            /\ Pass(w, "duration")
            /\ Goto(w, NextStage("duration"))
            /\ UNCHANGED err
    /\ UNCHANGED << mainpc, msgCount, reqId, status_message, chatStatus, info,
                    file_size, calls, outcome, report, sent, dir, clock, urlVars >>

\* edit "Downloading video in 1080p..."; ydl.download([url]) writes
\* '%(title)s.%(ext)s', or raises with or without a partial file left behind
Materialize(w) ==
    /\ pc[w] = "materialize"
    /\ \/ /\ Fault(w, "edit_message_text")
          /\ UNCHANGED << chatStatus, calls, passed, dir, clock >>
       \/ /\ Edit(w, "downloading")
          /\ Call(w, "download")
          /\ \/ /\ \E ext \in Exts :
                      dir' = WriteFile(dir, File(info[w].title \o ext, clock + 1,
                                                 reqId[w], reqId[w], "raw", 0))
                /\ clock' = clock + 1
                /\ Pass(w, "materialize")
                /\ Goto(w, NextStage("materialize"))
                /\ UNCHANGED err
             \/ /\ Fault(w, "download")
                /\ UNCHANGED << passed, dir, clock >>
             \/ /\ \E ext \in Exts :
                      dir' = WriteFile(dir, File(info[w].title \o ext \o PartSuffix,
                                                 clock + 1, reqId[w], reqId[w],
                                                 "partial", 0))
                /\ clock' = clock + 1
                /\ Fault(w, "download")
                /\ UNCHANGED passed
    /\ UNCHANGED << mainpc, msgCount, reqId, status_message, info, downloaded_file,
                    processed_file, file_size, outcome, report, sent, urlVars >>

\* potential_files = list(DOWNLOAD_DIR.glob("*")); downloaded_file = max(..., st_mtime)
Locate(w) ==
    /\ pc[w] = "locate"
    /\ IF dir = {}
       THEN /\ Throw(w, "no_files")
            /\ UNCHANGED << downloaded_file, passed >>
       ELSE /\ downloaded_file' = [downloaded_file EXCEPT ![w] = Newest(dir).name]
            /\ Pass(w, "locate")
            /\ Goto(w, NextStage("locate"))
            /\ UNCHANGED err
    /\ UNCHANGED << mainpc, msgCount, reqId, status_message, chatStatus, info,
                    processed_file, file_size, calls, outcome, report, sent, dir,
                    clock, urlVars >>

\* ffmpeg cannot read a missing input and refuses an output that is its input
\* ("Output same as Input"); process_video then returns False
FfmpegRefuses(d, input_file, output_file) ==
    \/ ~Exists(d, input_file)
    \/ input_file = output_file

\* edit "Processing video..."; if not process_video(downloaded_file, processed_file):
\* raise ValueError
Transform(w) ==
    /\ pc[w] = "transform"
    /\ \/ /\ Fault(w, "edit_message_text")
          /\ UNCHANGED << chatStatus, calls, passed, dir, clock >>
       \/ /\ Edit(w, "processing")
          /\ Call(w, "transform")
          /\ IF FfmpegRefuses(dir, downloaded_file[w], processed_file[w])
             THEN /\ Throw(w, "transform")
                  /\ UNCHANGED << passed, dir, clock >>
             ELSE \/ /\ \E size \in Sizes :
                           dir' = WriteFile(dir,
                                      File(processed_file[w], clock + 1, reqId[w],
                                           FileAt(dir, downloaded_file[w]).origin,
                                           "processed", size))
                     /\ clock' = clock + 1
                     /\ Pass(w, "transform")
                     /\ Goto(w, NextStage("transform"))
                     /\ UNCHANGED err
                  \/ /\ dir' = WriteFile(dir,
                                   File(processed_file[w], clock + 1, reqId[w],
                                        FileAt(dir, downloaded_file[w]).origin,
                                        "partial", 0))
                     /\ clock' = clock + 1
                     /\ Fault(w, "transform")
                     /\ UNCHANGED passed
                  \/ /\ Fault(w, "transform")
                     /\ UNCHANGED << passed, dir, clock >>
    /\ UNCHANGED << mainpc, msgCount, reqId, status_message, info, downloaded_file,
                    processed_file, file_size, outcome, report, sent, urlVars >>

\* file_size = os.path.getsize(processed_file); if file_size > 50 MiB: raise ValueError
SizeGate(w) ==
    /\ pc[w] = "size"
    /\ IF ~Exists(dir, processed_file[w])
       THEN /\ Throw(w, "getsize")
            /\ UNCHANGED << file_size, passed >>
       ELSE /\ file_size' = [file_size EXCEPT ![w] = FileAt(dir, processed_file[w]).size]
            /\ IF TooLarge(FileAt(dir, processed_file[w]).size)
               THEN /\ Throw(w, "too_large")
                    /\ UNCHANGED passed
               ELSE /\ Pass(w, "size")
                    /\ Goto(w, NextStage("size"))
                    /\ UNCHANGED err
    /\ UNCHANGED << mainpc, msgCount, reqId, status_message, chatStatus, info,
                    downloaded_file, processed_file, calls, outcome, report, sent,
                    dir, clock, urlVars >>

\* edit "Uploading to Telegram..."; with open(processed_file, 'rb'): bot.send_video(...)
Deliver(w) ==
    /\ pc[w] = "deliver"
    /\ \/ /\ Fault(w, "edit_message_text")
          /\ UNCHANGED << chatStatus, calls, passed, sent >>
       \/ /\ Edit(w, "uploading")
          /\ IF ~Exists(dir, processed_file[w])
             THEN /\ Throw(w, "open")
                  /\ UNCHANGED << calls, passed, sent >>
             ELSE /\ Call(w, "send")
                  /\ \/ /\ sent' = [sent EXCEPT ![w] =
                                      [ origin |-> FileAt(dir, processed_file[w]).origin,
                                        caption |-> info[w].title,
                                        size |-> FileAt(dir, processed_file[w]).size ]]
                        /\ Pass(w, "deliver")
                        /\ Goto(w, NextStage("deliver"))
                        /\ UNCHANGED err
                     \/ /\ Fault(w, "send_video")
                        /\ UNCHANGED << passed, sent >>
    /\ UNCHANGED << mainpc, msgCount, reqId, status_message, info, downloaded_file,
                    processed_file, file_size, outcome, report, dir, clock, urlVars >>

\* edit "Download and processing completed!"
Finalize(w) ==
    /\ pc[w] = "finalize"
    /\ \/ /\ Edit(w, "completed")
          /\ Pass(w, "finalize")
          /\ outcome' = [outcome EXCEPT ![w] = "Delivered"]
          /\ Goto(w, NextStage("finalize"))
          /\ UNCHANGED err
       \/ /\ Fault(w, "edit_message_text")
          /\ UNCHANGED << chatStatus, passed, outcome >>
    /\ UNCHANGED << mainpc, msgCount, reqId, status_message, info, downloaded_file,
                    processed_file, file_size, calls, report, sent, dir, clock,
                    urlVars >>

\* the policy gates raise the same ValueError as every fault; told apart by message
Policy(e) == e \in { "too_long", "too_large" }

\* except Exception as e: logger.error(...); if status_message: edit the error text
Except(w) ==
    /\ pc[w] = "except"
    /\ outcome' = [outcome EXCEPT ![w] = IF Policy(err[w]) THEN "Rejected" ELSE "Failed"]
    /\ IF status_message[w]
       THEN \/ /\ Edit(w, "error")
               /\ report' = [report EXCEPT ![w] =
                                [ caught |-> TRUE, logged |-> TRUE,
                                  reported |-> TRUE, escaped |-> FALSE ]]
            \/ /\ faults
               /\ report' = [report EXCEPT ![w] =
                                [ caught |-> TRUE, logged |-> TRUE,
                                  reported |-> FALSE, escaped |-> TRUE ]]
               /\ UNCHANGED chatStatus
       ELSE /\ report' = [report EXCEPT ![w] =
                             [ caught |-> TRUE, logged |-> TRUE,
                               reported |-> FALSE, escaped |-> FALSE ]]
            /\ UNCHANGED chatStatus
    /\ Goto(w, "finally")
    /\ UNCHANGED << mainpc, msgCount, reqId, status_message, info, downloaded_file,
                    processed_file, file_size, calls, passed, err, sent, dir, clock,
                    urlVars >>

\* finally: for file in [downloaded_file, processed_file]: if file and file.exists():
\* file.unlink(); then download_video returns, or the exception of the except
\* block leaves it
Finally(w) ==
    /\ pc[w] = "finally"
    /\ dir' = Unlink(dir, { downloaded_file[w], processed_file[w] })
    /\ Goto(w, IF report[w].escaped THEN "raised" ELSE "done")
    /\ UNCHANGED << mainpc, msgCount, reqId, status_message, chatStatus, info,
                    downloaded_file, processed_file, file_size, calls, passed, err,
                    outcome, report, sent, clock, urlVars >>

(***************************************************************************)
(* Specifications.                                                         *)
(***************************************************************************)
Stage(w) ==
    \/ Announce(w)
    \/ CleanExisting(w)
    \/ Resolve(w)
    \/ DurationGate(w)
    \/ Materialize(w)
    \/ Locate(w)
    \/ Transform(w)
    \/ SizeGate(w)
    \/ Deliver(w)
    \/ Finalize(w)
    \/ Except(w)
    \/ Finally(w)

Step(w) ==
    \/ Reply(w)
    \/ HandlerError(w)
    \/ Stage(w)

\* the reference design: one handler at a time
Next ==
    \/ ReceiveNext
    \/ PollingError
    \/ MainContinue
    \/ \E w \in Workers : Step(w)

Spec == Init /\ [][Next]_vars

\* telebot's worker pool: the download_video runs of two YouTube links overlap,
\* step by step, with collaborators that do not fail on their own
ReceiveConcurrent(w) == Receive(w, { WatchUrl, ShortUrl })

NextConc ==
    \/ \E w \in Workers : ReceiveConcurrent(w)
    \/ \E w \in Workers : Stage(w)

InitCalm ==
    /\ text = << >>
    /\ verdict = "unset"
    /\ faults = FALSE
    /\ BotInit

SpecConc == InitCalm /\ [][NextConc]_vars

\* one download_video run at a time, with collaborators that do not fail on
\* their own: what the workflow does when nothing goes wrong around it
ReceiveLink ==
    /\ \A v \in Workers : ~Active(v)
    /\ Receive(1, { WatchUrl, ShortUrl })

NextCalm ==
    \/ ReceiveLink
    \/ \E w \in Workers : Stage(w)

SpecCalm == InitCalm /\ [][NextCalm]_vars

\* the classifier applied to one text
Classify ==
    /\ verdict = "unset"
    /\ verdict' = IF is_valid_youtube_url(text) THEN "True" ELSE "False"
    /\ UNCHANGED << text, faults, botVars >>

InitUrl ==
    /\ text \in Texts
    /\ verdict = "unset"
    /\ faults = TRUE
    /\ BotInit

SpecUrl == InitUrl /\ [][Classify]_vars

\* the receive loop with its scheduling: main() runs on after an exception, and a
\* started handler runs to its end
FairSpec ==
    /\ Spec
    /\ WF_vars(MainContinue)
    /\ \A w \in Workers : WF_vars(Step(w))

(***************************************************************************)
(* Properties.                                                             *)
(***************************************************************************)
\* download_video has run its finally block for the request of worker w
Returned(w) == pc[w] \in { "done", "raised" } /\ outcome[w] # "none"

\* the files in the downloads directory that request w wrote
FilesOf(w) == { f \in dir : f.owner = reqId[w] }

Seconds(w) == info[w].duration.secs

\* C1: once download_video has returned, whatever the outcome, the downloads
\* directory holds no file written by that request (also when ydl.download or
\* the transform failed after writing part of a file).
C1_NoFileLeftBehind ==
    \A w \in Workers : Returned(w) => FilesOf(w) = {}

\* C2: a request whose resolved duration exceeds 600 seconds never reaches
\* ydl.download, the transform or send_video, writes no file, and ends Rejected
\* as too long; a duration of at most 600, or a missing one, passes the gate.
C2_DurationGate ==
    \A w \in Workers :
        /\ (info[w] # NoInfo /\ info[w].duration.key = "int" /\ Seconds(w) > 600) =>
              /\ calls[w].download = 0
              /\ calls[w].transform = 0
              /\ calls[w].send = 0
              /\ FilesOf(w) = {}
              /\ pc[w] # "duration" => err[w] = "too_long"
              /\ Returned(w) => outcome[w] = "Rejected"
        /\ (/\ info[w] # NoInfo
            /\ \/ info[w].duration.key = "absent"
               \/ info[w].duration.key = "int" /\ Seconds(w) <= 600) =>
              /\ err[w] # "too_long"
              /\ pc[w] # "duration" => "duration" \in Range(passed[w])

C2_Witness ==
    \E w \in Workers :
        /\ Returned(w)
        /\ info[w].duration.key = "int"
        /\ Seconds(w) > 600
        /\ outcome[w] = "Rejected"
        /\ calls[w].download = 0

LowerChar(c) ==
    IF c \in Range(UpperSeq)
    THEN LowerSeq[CHOOSE i \in 1..Len(UpperSeq) : UpperSeq[i] = c]
    ELSE c

\* a text in lower case
Lower(s) == [ i \in 1..Len(s) |-> LowerChar(s[i]) ]

\* s ends with suffix
EndsWith(s, suffix) ==
    /\ Len(suffix) <= Len(s)
    /\ SubSeq(s, Len(s) - Len(suffix) + 1, Len(s)) = suffix

\* the host component the claim speaks of: the netloc without user info and
\* port, in lower case
Hostname(url) ==
    LET n == Netloc(url)
        ats == { i \in 1..Len(n) : n[i] = "@" }
        hostinfo == IF ats = {} THEN n
                    ELSE SubSeq(n, (CHOOSE i \in ats : \A j \in ats : j <= i) + 1, Len(n))
    IN  Lower(SubSeq(hostinfo, 1, FindAny(hostinfo, { ":" }, 1) - 1))

\* an accepted source domain or a subdomain of one
AcceptedHost(h) ==
    \E d \in { YouTubeCom, YoutuBe } : h = d \/ EndsWith(h, << "." >> \o d)

\* C4: is_valid_youtube_url(text) is true exactly when text parses as a URL
\* whose host is youtube.com, youtu.be or a subdomain of one, whatever its case.
C4_HostDecides ==
    verdict # "unset" =>
        (verdict = "True" <=> (~ParseRaises(text) /\ AcceptedHost(Hostname(text))))

\* request v is in flight next to w
Overlaps(w, v) == v # w /\ Active(v)

\* C5: when two download_video runs overlap, each delivers and transforms only
\* the file materialized for its own URL, and no run's start-of-workflow
\* cleanup, locate step or final cleanup deletes or selects a file of the other
\* run in flight.
C5_Isolation ==
    [][ \A w \in Workers :
          /\ (sent'[w] # sent[w] /\ sent'[w] # NoVideo) => sent'[w].origin = reqId[w]
          /\ (pc[w] = "transform" /\ pc'[w] = "size") =>
                 FileAt(dir, downloaded_file[w]).origin = reqId[w]
          /\ (pc[w] = "locate" /\ pc'[w] = "transform") =>
                 Newest(dir).owner = reqId[w]
          /\ (pc[w] \in { "clean", "finally" } /\ pc'[w] # pc[w]) =>
                 \A f \in dir \ dir' :
                     ~ \E v \in Workers : Overlaps(w, v) /\ f.owner = reqId[v]
      ]_vars

\* C6: a request has exactly one status message; after Delivered it has been
\* deleted, after Rejected or Failed it remains and shows the error text.
C6_StatusLifecycle ==
    \A w \in Workers :
        Returned(w) =>
            /\ status_message[w]
            /\ outcome[w] = "Delivered" => chatStatus[w] = "deleted"
            /\ outcome[w] \in { "Rejected", "Failed" } => chatStatus[w] = "error"

\* C7: every error raised in a stage of download_video is caught inside it,
\* logged, reported to the requester and followed by the cleanup, also when
\* bot.reply_to failed and when reporting the error fails.
C7_ErrorsHandled ==
    \A w \in Workers :
        (pc[w] \in { "done", "raised" } /\ err[w] # "none") =>
            /\ report[w].caught
            /\ report[w].logged
            /\ report[w].reported
            /\ ~report[w].escaped

\* a handler has ended in a rejection, a failure or an escaped exception
SomeFailure ==
    \E w \in Workers :
        \/ pc[w] = "raised"
        \/ pc[w] = "done" /\ outcome[w] \in { "Rejected", "Failed" }

\* C8: no failed request and no polling exception ends the process: main() is
\* never left, after an exception it polls again, and once the handler has
\* ended the next inbound message is dispatched.
C8_LoopResumes ==
    /\ [](mainpc \in { "polling", "except" })
    /\ (mainpc = "except") ~> (mainpc = "polling")
    /\ [](( /\ SomeFailure
            /\ mainpc = "polling"
            /\ msgCount < MaxMessages
            /\ \A v \in Workers : ~Active(v)) => ENABLED ReceiveNext)

\* an earlier request failed in ydl.download (its partial file is still there)
\* and a later message has been dispatched all the same
C8_Witness ==
    /\ msgCount > 1
    /\ Active(1)
    /\ \E f \in dir : f.owner < msgCount /\ f.kind = "partial"

\* the order of the stages as the claim lists them
ClaimedOrder ==
    << "announce", "resolve", "duration", "materialize", "locate", "transform",
       "size", "deliver", "finalize" >>

Completed(w) == SelectSeq(passed[w], LAMBDA st : st # "clean")

\* C9: the stages complete in the order Announce, Resolve, duration check,
\* Materialize, Locate, Transform, size check, Deliver, Finalize, each only
\* after all earlier ones succeeded, and resolve, download, transform and
\* send_video are each invoked at most once per request.
C9_StagesInOrder ==
    \A w \in Workers :
        /\ Len(Completed(w)) <= Len(ClaimedOrder)
        /\ Completed(w) = SubSeq(ClaimedOrder, 1, Len(Completed(w)))
        /\ calls[w].resolve <= 1 /\ calls[w].download <= 1
        /\ calls[w].transform <= 1 /\ calls[w].send <= 1
        /\ calls[w].resolve > 0 => Len(Completed(w)) >= 1
        /\ calls[w].download > 0 => Len(Completed(w)) >= 3
        /\ calls[w].transform > 0 => Len(Completed(w)) >= 5
        /\ calls[w].send > 0 => Len(Completed(w)) >= 7

C9_Witness ==
    \E w \in Workers :
        /\ Returned(w)
        /\ outcome[w] = "Delivered"
        /\ calls[w] = [ resolve |-> 1, download |-> 1, transform |-> 1, send |-> 1 ]

\* C10: process_video is never invoked with its output path equal to its input
\* path, also for titles get_safe_filename leaves unchanged.
C10_InputIsNotOutput ==
    \A w \in Workers :
        calls[w].transform > 0 => downloaded_file[w] # processed_file[w]

====
